---- MODULE Spec2Model ----
(***************************************************************************)
(* The rate-limiting middleware of cmd/api/middleware.go: the rateLimit    *)
(* handler, its clients map and mutex, the background goroutine that       *)
(* removes idle clients, and the token bucket (rate.Limiter) each client   *)
(* owns.  Request goroutines and the cleanup goroutine are interleaved     *)
(* statement by statement; the clock advances between any two statements.  *)
(***************************************************************************)
EXTENDS Integers, Sequences, FiniteSets, TLC

VARIABLES
    cfg,        \* app.config.limiter: [enabled, rps, burst]
    now,        \* the clock (time.Now()), in ticks
    mu,         \* sync.Mutex of rateLimit: TRUE when locked
    clients,    \* map[string]*client, a function on the IPs present
    req,        \* one record per request goroutine
    sw,         \* the cleanup goroutine: [pc, wake, todo], and the history
                \* of its passes: [began, passes, after, since]
    gen,        \* history: clients created per IP
    evicted,    \* history: clients deleted per IP
    win,        \* history: the limiter.Allow() calls per IP at this instant
    last,       \* history: the request that returned last
    served,     \* history: requests accepted so far, per client
    fwd,        \* history: requests passed to the next handler, per client
    srv,        \* serve(): its two goroutines, the WaitGroup, the tasks
    auth        \* a request on its way through authenticate and its route

vars == <<cfg, now, mu, clients, req, sw, gen, evicted, win, last, served,
          fwd, srv, auth>>

----------------------------------------------------------------------------
(* Bounds of the model *)

MaxOver == 2        \* requests the first client sends beyond its burst
MaxOther == 1       \* requests the second client sends
MaxFine == 1        \* single ticks the clock takes
MaxJumps == 2       \* long steps the clock takes

(* Time: one tick is half a second *)
Second == 2
Minute == 60 * Second
Jump == 2 * Minute  \* a long step of the clock
ZeroTime == 0 - 1   \* time.Time{}: the lastSeen of a client not yet touched

(* Program constants *)
DefaultRps == 2
DefaultBurst == 4
StatusInternalServerError == 500
IdleMinutes == 3

Reqs == {1, 2}      \* the request goroutines running at once

MaxTasks == 2       \* background tasks launched in a run
Tasks == 1..MaxTasks

(* r.RemoteAddr, as the tokens net.SplitHostPort scans *)
Addrs == { <<"10.0.0.1", ":", "4000">>,
           <<"10.0.0.2", ":", "4000">>,
           <<"10.0.0.1">> }
IPs == {"10.0.0.1", "10.0.0.2"}

\* The client a request comes from, and how many requests it may send
Peer(a) == a[1]
Budget(ip) == IF ip = "10.0.0.1" THEN cfg.burst + MaxOver ELSE MaxOther

(* The limiter flags of main(): the defaults, and a burst of one with the   *)
(* limiter on or off                                                       *)
DefaultConfig == [enabled |-> TRUE, rps |-> DefaultRps, burst |-> DefaultBurst]
Configs == { [enabled |-> e, rps |-> DefaultRps, burst |-> 1] : e \in BOOLEAN }

Min(a, b) == IF a <= b THEN a ELSE b

----------------------------------------------------------------------------
(* net.SplitHostPort: the host before the last colon; an address with no   *)
(* colon misses its port, a host holding a colon has too many.             *)

LastColon(a) ==
    LET S == { i \in 1..Len(a) : a[i] = ":" }
    IN  IF S = {} THEN 0 ELSE CHOOSE i \in S : \A j \in S : j <= i

SplitHostPort(a) ==
    LET i == LastColon(a)
        host == SubSeq(a, 1, i - 1)
    IN  IF i = 0 THEN [err |-> "missing port in address", host |-> ""]
        ELSE IF \E j \in 1..Len(host) : host[j] = ":"
             THEN [err |-> "too many colons in address", host |-> ""]
        ELSE [err |-> "", host |-> IF host = <<>> THEN "" ELSE host[1]]

----------------------------------------------------------------------------
(* rate.Limiter.  Tokens are counted in 1/Second of a token, so that one   *)
(* tick at rps tokens a second adds rps units and a request costs Second.  *)

Token == Second

NewLimiterEmpty(rps, burst) ==
    [limit |-> rps, burst |-> burst, tokens |-> 0, last |-> 0]

NewLimiter(rps, burst) ==
    [limit |-> rps, burst |-> burst, tokens |-> burst * Token, last |-> 0]

AdvanceNoRefill(lim, t) == lim.tokens

AdvanceNoCap(lim, t) == lim.tokens + (t - lim.last) * lim.limit

\* Limiter.advance: the tokens at time t, capped at burst
Advance(lim, t) ==
    LET from == IF t < lim.last THEN t ELSE lim.last
    IN  Min(lim.burst * Token, lim.tokens + (t - from) * lim.limit)

\* Limiter.Allow at time t: whether one token is there.  A limiter of limit
\* zero never refills: it counts its burst down instead.
AllowOk(lim, t) ==
    IF lim.limit = 0 THEN lim.burst >= 1 ELSE Advance(lim, t) >= Token

AllowLimLost(lim, t) == lim

AllowLimCharges(lim, t) ==
    [lim EXCEPT !.tokens = Advance(lim, t) - Token, !.last = t]

\* Limiter.Allow at time t: the limiter afterwards
AllowLim(lim, t) ==
    IF ~AllowOk(lim, t) THEN lim
    ELSE IF lim.limit = 0 THEN [lim EXCEPT !.burst = @ - 1]
    ELSE [lim EXCEPT !.tokens = Advance(lim, t) - Token, !.last = t]

----------------------------------------------------------------------------
(* routes.go 142: the middleware chain, outermost first *)

Chain == <<"recoverPanic", "enableCORS", "rateLimit", "authenticate", "router">>
Position(h) == CHOOSE i \in 1..Len(Chain) : Chain[i] = h

----------------------------------------------------------------------------
(* sync.Mutex *)

MuLockNoWait == mu' = TRUE
MuLock == ~mu /\ mu' = TRUE
MuUnlock == mu' = FALSE

----------------------------------------------------------------------------
(* A request goroutine *)

NoReq == [pc |-> "idle", addr |-> <<>>, ip |-> "", bad |-> FALSE, status |-> 0,
          logged |-> FALSE, nextCalls |-> 0, holds |-> FALSE, took |-> FALSE,
          nInsert |-> 0, nTouch |-> 0, nAllow |-> 0, seq |-> 0,
          panicked |-> FALSE, outcome |-> "none", body |-> <<>>]

\* The cleanup goroutine at its first sleep.  began is when the pass under
\* way took the mutex; passes counts the passes made in a row since a request
\* last wrote the map, after is the map the last of them left and since is
\* when that pass took the mutex.
\* started counts the cleanup goroutines rateLimit has launched.
NoSweep == [pc |-> "sleep", wake |-> Minute, todo |-> {}, began |-> 0,
            passes |-> 0, after |-> << >>, since |-> 0, started |-> 1]

\* serve() with the server listening (part_003 line 107) and the signal
\* goroutine waiting for a signal (line 54); no background task launched.
\* wg is the counter of app.wg, tasks the state of each background task,
\* err the result of srv.Shutdown, sent the sends made on shutdownError and
\* result what serve() returned.
NoServe == [main |-> "listen", sig |-> "quit", closed |-> FALSE, wg |-> 0,
            tasks |-> [t \in Tasks |-> "none"], err |-> "none", sent |-> 0,
            result |-> "none"]

\* No request in authenticate.  header is the Authorization header split at
\* its spaces, ctx the user value of the request context (none, or one),
\* route the permission code of the route ("" when it asks for none), checks
\* the checks of the route run so far, resp the error response written, next
\* the calls authenticate made of its next handler, ran the calls of the
\* route's own handler.
NoAuth == [pc |-> "idle", header |-> << >>, ctx |-> << >>, route |-> "",
           checks |-> << >>, resp |-> "", next |-> 0, ran |-> 0,
           panicked |-> FALSE]

\* A request writes the map: the passes before it are no longer in a row
Disturb == sw' = [sw EXCEPT !.passes = 0, !.after = << >>, !.since = 0]

Init ==
    /\ cfg \in Configs
    /\ now = 0
    /\ mu = FALSE
    /\ clients = << >>
    /\ req = [r \in Reqs |-> NoReq]
    /\ sw = NoSweep
    /\ gen = [ip \in IPs |-> 0]
    /\ evicted = [ip \in IPs |-> 0]
    /\ win = [ip \in IPs |-> <<>>]
    /\ last = NoReq
    /\ served = [ip \in IPs |-> 0]
    /\ fwd = [ip \in IPs |-> 0]
    /\ srv = NoServe
    /\ auth = NoAuth

\* net/http serves each request on a goroutine of its own: the lowest free one
Free(r) == req[r].pc = "idle" /\ \A q \in Reqs : q < r => req[q].pc # "idle"

\* The server accepts a request and runs the handler on goroutine r
Accept(r, q) ==
    /\ Free(r)
    /\ served[Peer(q.addr)] < Budget(Peer(q.addr))
    /\ req' = [req EXCEPT ![r] = q]
    /\ served' = [served EXCEPT ![Peer(q.addr)] = @ + 1]

\* The handler returns: the goroutine ends, the request is on record
Return(r, q) ==
    /\ req' = [req EXCEPT ![r] = NoReq]
    /\ last' = [q EXCEPT !.pc = "done", !.addr = <<>>, !.ip = "", !.seq = 0,
                          !.bad = SplitHostPort(q.addr).err # ""]

BeginDisabledLimited(r, a) ==
    /\ ~cfg.enabled
    /\ SplitHostPort(a).err = ""
    /\ Accept(r, [NoReq EXCEPT !.pc = "lock", !.addr = a,
                                !.ip = SplitHostPort(a).host])
    /\ UNCHANGED <<cfg, now, mu, clients, sw, gen, evicted, win, last, fwd, srv,
                 auth>>

BeginDisabledSplitsFirst(r, a) ==
    /\ ~cfg.enabled
    /\ Accept(r, IF SplitHostPort(a).err # ""
                 THEN [NoReq EXCEPT !.pc = "error", !.addr = a]
                 ELSE [NoReq EXCEPT !.pc = "downstream", !.addr = a,
                                    !.nextCalls = 1])
    /\ UNCHANGED <<cfg, now, mu, clients, sw, gen, evicted, win, last, fwd, srv,
                 auth>>

\* middleware.go 93-95 and 146: limiter disabled, straight to the next handler
BeginDisabled(r, a) ==
    /\ ~cfg.enabled
    /\ Accept(r, [NoReq EXCEPT !.pc = "downstream", !.addr = a, !.nextCalls = 1])
    /\ fwd' = [fwd EXCEPT ![Peer(a)] = @ + 1]
    /\ UNCHANGED <<cfg, now, mu, clients, sw, gen, evicted, win, last, srv, auth>>

\* errors.go 175-207: writeJSON; an envelope of strings always marshals
WriteJSON(q, status, env) == [q EXCEPT !.status = status, !.body = env]

ErrorResponseLogs(q, status, message) ==
    WriteJSON([q EXCEPT !.logged = TRUE], status, << <<"error", message>> >>)

\* errors.go 18-33: errorResponse writes the envelope {"error": message}
ErrorResponse(q, status, message) ==
    WriteJSON(q, status, << <<"error", message>> >>)

ServerErrorMessage ==
    "the server encountered a problem and could not process your request"

ServerErrorResponseSilent(q) ==
    ErrorResponse(q, StatusInternalServerError, ServerErrorMessage)

\* errors.go 42-52: serverErrorResponse logs and answers 500
ServerErrorResponse(q) ==
    ErrorResponse([q EXCEPT !.logged = TRUE],
                  StatusInternalServerError, ServerErrorMessage)

\* middleware.go 95-101: the address does not split
BeginBadAddr(r, a) ==
    /\ cfg.enabled
    /\ SplitHostPort(a).err # ""
    /\ Accept(r, [NoReq EXCEPT !.pc = "error", !.addr = a])
    /\ UNCHANGED <<cfg, now, mu, clients, sw, gen, evicted, win, last, fwd, srv,
                 auth>>

\* middleware.go 99-100: serverErrorResponse, then return
Error(r) ==
    /\ req[r].pc = "error"
    /\ Return(r, [ServerErrorResponse(req[r]) EXCEPT !.outcome = "ERROR"])
    /\ UNCHANGED <<cfg, now, mu, clients, sw, gen, evicted, win, served, fwd, srv,
                 auth>>

\* middleware.go 95-97: the address splits, the IP is known
BeginOk(r, a) ==
    /\ cfg.enabled
    /\ SplitHostPort(a).err = ""
    /\ Accept(r, [NoReq EXCEPT !.pc = "lock", !.addr = a,
                                !.ip = SplitHostPort(a).host])
    /\ UNCHANGED <<cfg, now, mu, clients, sw, gen, evicted, win, last, fwd, srv,
                 auth>>

LockRemembers(r) ==
    /\ req[r].pc = "lock"
    /\ MuLock
    /\ req' = [req EXCEPT ![r].holds = TRUE, ![r].took = TRUE,
                          ![r].pc = IF gen[req[r].ip] > 0
                                    THEN "touch" ELSE "insert"]
    /\ UNCHANGED <<cfg, now, clients, sw, gen, evicted, win, last, served, fwd,
                 srv, auth>>

\* middleware.go 105-113: the mutex is taken, the IP looked up
Lock(r) ==
    /\ req[r].pc = "lock"
    /\ MuLock
    /\ req' = [req EXCEPT ![r].holds = TRUE, ![r].took = TRUE,
                          ![r].pc = IF req[r].ip \in DOMAIN clients
                                    THEN "touch" ELSE "insert"]
    /\ UNCHANGED <<cfg, now, clients, sw, gen, evicted, win, last, served, fwd,
                 srv, auth>>

NewClientDefaults(id) ==
    [id |-> id, used |-> FALSE,
     limiter |-> NewLimiter(DefaultRps, DefaultBurst), lastSeen |-> ZeroTime]

\* middleware.go 119-122: a new client with a new limiter
NewClient(id) ==
    [id |-> id, used |-> FALSE,
     limiter |-> NewLimiter(cfg.rps, cfg.burst), lastSeen |-> ZeroTime]

Insert(r) ==
    /\ req[r].pc = "insert"
    /\ clients' = (req[r].ip :> NewClient(gen[req[r].ip] + 1)) @@ clients
    /\ gen' = [gen EXCEPT ![req[r].ip] = @ + 1]
    /\ req' = [req EXCEPT ![r].pc = "touch", ![r].nInsert = @ + 1]
    /\ Disturb
    /\ UNCHANGED <<cfg, now, mu, evicted, win, last, served, fwd, srv, auth>>

TouchAll(r) ==
    /\ req[r].pc = "touch"
    /\ clients' = [i \in DOMAIN clients |-> [clients[i] EXCEPT !.lastSeen = now]]
    /\ req' = [req EXCEPT ![r].pc = "allow", ![r].nTouch = @ + 1]
    /\ Disturb
    /\ UNCHANGED <<cfg, now, mu, gen, evicted, win, last, served, fwd, srv, auth>>

TouchSkipped(r) ==
    /\ req[r].pc = "touch"
    /\ req' = [req EXCEPT ![r].pc = "allow", ![r].nTouch = @ + 1]
    /\ Disturb
    /\ UNCHANGED <<cfg, now, mu, clients, gen, evicted, win, last, served, fwd,
                 srv, auth>>

\* middleware.go 125; a nil client panics
Touch(r) ==
    /\ req[r].pc = "touch"
    /\ IF req[r].ip \in DOMAIN clients
       THEN /\ clients' = [clients EXCEPT ![req[r].ip].lastSeen = now]
            /\ req' = [req EXCEPT ![r].pc = "allow", ![r].nTouch = @ + 1]
       ELSE /\ clients' = clients
            /\ req' = [req EXCEPT ![r].pc = "panic", ![r].panicked = TRUE]
    /\ Disturb
    /\ UNCHANGED <<cfg, now, mu, gen, evicted, win, last, served, fwd, srv, auth>>

\* middleware.go 133: limiter.Allow()
Allow(r) ==
    /\ req[r].pc = "allow"
    /\ LET ip == req[r].ip IN
       IF ip \in DOMAIN clients
       THEN LET lim == clients[ip].limiter
                ok == AllowOk(lim, now)
            IN  /\ clients' = [clients EXCEPT ![ip].limiter = AllowLim(lim, now),
                                              ![ip].used = TRUE]
                /\ win' = [win EXCEPT ![ip] =
                              Append(@, [id |-> clients[ip].id,
                                         first |-> ~clients[ip].used,
                                         had |-> lim.tokens, from |-> lim.last,
                                         pre |-> Advance(lim, now), ok |-> ok])]
                /\ req' = [req EXCEPT ![r].pc = IF ok THEN "unlockfwd" ELSE "unlockrej",
                                      ![r].nAllow = @ + 1,
                                      ![r].seq = Len(win[ip]) + 1]
       ELSE /\ clients' = clients
            /\ win' = win
            /\ req' = [req EXCEPT ![r].pc = "panic", ![r].panicked = TRUE]
    /\ Disturb
    /\ UNCHANGED <<cfg, now, mu, gen, evicted, last, served, fwd, srv, auth>>

UnlockRejectForgotten(r) ==
    /\ req[r].pc = "unlockrej"
    /\ req' = [req EXCEPT ![r].pc = "respond"]
    /\ UNCHANGED <<cfg, now, mu, clients, sw, gen, evicted, win, last, served,
                 fwd, srv, auth>>

\* middleware.go 134
UnlockReject(r) ==
    /\ req[r].pc = "unlockrej"
    /\ MuUnlock
    /\ req' = [req EXCEPT ![r].pc = "respond", ![r].holds = FALSE]
    /\ UNCHANGED <<cfg, now, clients, sw, gen, evicted, win, last, served, fwd,
                 srv, auth>>

\* middleware.go 135-136: rateLimitExceededResponse, then return
RateLimitExceededResponse(q) == ErrorResponse(q, 429, "rate limit exceeded")

RejectFallsThrough(r) ==
    /\ req[r].pc = "respond"
    /\ Return(r, [RateLimitExceededResponse(req[r])
                     EXCEPT !.outcome = "REJECT", !.nextCalls = @ + 1])
    /\ UNCHANGED <<cfg, now, mu, clients, sw, gen, evicted, win, served, fwd, srv,
                 auth>>

Reject(r) ==
    /\ req[r].pc = "respond"
    /\ Return(r, [RateLimitExceededResponse(req[r]) EXCEPT !.outcome = "REJECT"])
    /\ UNCHANGED <<cfg, now, mu, clients, sw, gen, evicted, win, served, fwd, srv,
                 auth>>

UnlockForwardDeferred(r) ==
    /\ req[r].pc = "unlockfwd"
    /\ req' = [req EXCEPT ![r].pc = "downstream", ![r].nextCalls = @ + 1]
    /\ fwd' = [fwd EXCEPT ![req[r].ip] = @ + 1]
    /\ UNCHANGED <<cfg, now, mu, clients, sw, gen, evicted, win, last, served,
                 srv, auth>>

\* middleware.go 144-146: unlock, then next.ServeHTTP(w, r) is entered
UnlockForward(r) ==
    /\ req[r].pc = "unlockfwd"
    /\ MuUnlock
    /\ req' = [req EXCEPT ![r].pc = "downstream", ![r].holds = FALSE,
                          ![r].nextCalls = @ + 1]
    /\ fwd' = [fwd EXCEPT ![req[r].ip] = @ + 1]
    /\ UNCHANGED <<cfg, now, clients, sw, gen, evicted, win, last, served, srv,
                 auth>>

NextReturnsRefunds(r) ==
    /\ req[r].pc = "downstream"
    /\ Return(r, [req[r] EXCEPT !.outcome = "FORWARD"])
    /\ clients' = [ip \in DOMAIN clients |->
                     IF ip = req[r].ip
                     THEN [clients[ip] EXCEPT !.limiter.tokens = @ + Token]
                     ELSE clients[ip]]
    /\ UNCHANGED <<cfg, now, mu, sw, gen, evicted, win, served, fwd, srv, auth>>

\* middleware.go 146-147: the next handler returns, and so does the gate
NextReturns(r) ==
    /\ req[r].pc = "downstream"
    /\ Return(r, [req[r] EXCEPT !.outcome = "FORWARD"])
    /\ UNCHANGED <<cfg, now, mu, clients, sw, gen, evicted, win, served, fwd, srv,
                 auth>>

\* middleware.go 146-147 with 206-208: the next handler (authenticate) answers
\* with serverErrorResponse and returns
NextFails(r) ==
    /\ req[r].pc = "downstream"
    /\ Return(r, [ServerErrorResponse(req[r]) EXCEPT !.outcome = "FORWARD"])
    /\ UNCHANGED <<cfg, now, mu, clients, sw, gen, evicted, win, served, fwd, srv,
                 auth>>

NextPanicsUnrecovered(r) ==
    /\ req[r].pc = "downstream"
    /\ Return(r, [req[r] EXCEPT !.outcome = "FORWARD", !.panicked = TRUE])
    /\ UNCHANGED <<cfg, now, mu, clients, sw, gen, evicted, win, served, fwd, srv,
                 auth>>

\* middleware.go 28-46: the next handler panics; recoverPanic answers 500
NextPanics(r) ==
    /\ req[r].pc = "downstream"
    /\ Return(r, [ServerErrorResponse(req[r])
                     EXCEPT !.outcome = "FORWARD", !.panicked = TRUE])
    /\ UNCHANGED <<cfg, now, mu, clients, sw, gen, evicted, win, served, fwd, srv,
                 auth>>

----------------------------------------------------------------------------
(* The cleanup goroutine, middleware.go 69-89 *)

IdleOneMinute(c, t) == c.lastSeen = ZeroTime \/ t - c.lastSeen > Minute

\* middleware.go 81
Idle(c, t) == c.lastSeen = ZeroTime \/ t - c.lastSeen > IdleMinutes * Minute

SweepLockNoMutex ==
    /\ sw.pc = "sleep" /\ now >= sw.wake
    /\ sw' = [sw EXCEPT !.pc = "range", !.todo = DOMAIN clients, !.began = now]
    /\ UNCHANGED <<cfg, now, mu, clients, req, gen, evicted, win, last, served,
                 fwd, srv, auth>>

\* middleware.go 71-75: the sleep is over, the mutex is taken
SweepLock ==
    /\ sw.pc = "sleep" /\ now >= sw.wake
    /\ MuLock
    /\ sw' = [sw EXCEPT !.pc = "range", !.todo = DOMAIN clients, !.began = now]
    /\ UNCHANGED <<cfg, now, clients, req, gen, evicted, win, last, served, fwd,
                 srv, auth>>

SweepVisitBreaks(ip) ==
    /\ sw.pc = "range" /\ ip \in sw.todo
    /\ IF ip \in DOMAIN clients /\ Idle(clients[ip], now)
       THEN /\ clients' = [i \in DOMAIN clients \ {ip} |-> clients[i]]
            /\ evicted' = [evicted EXCEPT ![ip] = @ + 1]
            /\ sw' = [sw EXCEPT !.todo = {}]
       ELSE /\ UNCHANGED <<clients, evicted>>
            /\ sw' = [sw EXCEPT !.todo = @ \ {ip}]
    /\ UNCHANGED <<cfg, now, mu, req, gen, win, last, served, fwd, srv, auth>>

\* middleware.go 80-84: one iteration of the range loop
SweepVisit(ip) ==
    /\ sw.pc = "range" /\ ip \in sw.todo
    /\ sw' = [sw EXCEPT !.todo = @ \ {ip}]
    /\ IF ip \in DOMAIN clients /\ Idle(clients[ip], now)
       THEN /\ clients' = [i \in DOMAIN clients \ {ip} |-> clients[i]]
            /\ evicted' = [evicted EXCEPT ![ip] = @ + 1]
       ELSE UNCHANGED <<clients, evicted>>
    /\ UNCHANGED <<cfg, now, mu, req, gen, win, last, served, fwd, srv, auth>>

SweepUnlockReturns ==
    /\ sw.pc = "range" /\ sw.todo = {}
    /\ MuUnlock
    /\ sw' = [sw EXCEPT !.pc = "returned", !.began = 0,
                         !.passes = Min(@ + 1, 2), !.after = clients,
                         !.since = sw.began]
    /\ UNCHANGED <<cfg, now, clients, req, gen, evicted, win, last, served, fwd,
                 srv, auth>>

\* middleware.go 87 and 71: unlock, sleep again
SweepUnlock ==
    /\ sw.pc = "range" /\ sw.todo = {}
    /\ MuUnlock
    /\ sw' = [sw EXCEPT !.pc = "sleep", !.wake = now + Minute, !.began = 0,
                         !.passes = Min(@ + 1, 2), !.after = clients,
                         !.since = sw.began]
    /\ UNCHANGED <<cfg, now, clients, req, gen, evicted, win, last, served, fwd,
                 srv, auth>>

----------------------------------------------------------------------------
(* The clock.  The history of an instant ends with it. *)

NewInstant ==
    /\ win' = [ip \in IPs |-> <<>>]
    /\ req' = [r \in Reqs |-> [req[r] EXCEPT !.seq = 0]]

Tick ==
    /\ now % Minute < MaxFine
    /\ now' = now + 1
    /\ NewInstant
    /\ UNCHANGED <<cfg, mu, clients, sw, gen, evicted, last, served, fwd, srv, auth>>

TickJump ==
    /\ now \div Jump < MaxJumps
    /\ now' = now + Jump
    /\ NewInstant
    /\ UNCHANGED <<cfg, mu, clients, sw, gen, evicted, last, served, fwd, srv, auth>>

Next ==
    \/ \E r \in Reqs, a \in Addrs : BeginDisabled(r, a)
    \/ \E r \in Reqs, a \in Addrs : BeginBadAddr(r, a)
    \/ \E r \in Reqs, a \in Addrs : BeginOk(r, a)
    \/ \E r \in Reqs : Error(r)
    \/ \E r \in Reqs : Lock(r)
    \/ \E r \in Reqs : Insert(r)
    \/ \E r \in Reqs : Touch(r)
    \/ \E r \in Reqs : Allow(r)
    \/ \E r \in Reqs : UnlockReject(r)
    \/ \E r \in Reqs : Reject(r)
    \/ \E r \in Reqs : UnlockForward(r)
    \/ \E r \in Reqs : NextReturns(r)
    \/ \E r \in Reqs : NextPanics(r)
    \/ SweepLock
    \/ \E ip \in IPs : SweepVisit(ip)
    \/ SweepUnlock
    \/ Tick
    \/ TickJump

Spec == Init /\ [][Next]_vars

(* The first second after start, under the default flags: the cleanup      *)
(* goroutine sleeps throughout                                             *)
InitBurst ==
    /\ cfg = DefaultConfig
    /\ now = 0
    /\ mu = FALSE
    /\ clients = << >>
    /\ req = [r \in Reqs |-> NoReq]
    /\ sw = NoSweep
    /\ gen = [ip \in IPs |-> 0]
    /\ evicted = [ip \in IPs |-> 0]
    /\ win = [ip \in IPs |-> <<>>]
    /\ last = NoReq
    /\ served = [ip \in IPs |-> 0]
    /\ fwd = [ip \in IPs |-> 0]
    /\ srv = NoServe
    /\ auth = NoAuth

NextBurst ==
    \/ \E r \in Reqs, a \in Addrs : BeginBadAddr(r, a)
    \/ \E r \in Reqs, a \in Addrs : BeginOk(r, a)
    \/ \E r \in Reqs : Error(r)
    \/ \E r \in Reqs : Lock(r)
    \/ \E r \in Reqs : Insert(r)
    \/ \E r \in Reqs : Touch(r)
    \/ \E r \in Reqs : Allow(r)
    \/ \E r \in Reqs : UnlockReject(r)
    \/ \E r \in Reqs : Reject(r)
    \/ \E r \in Reqs : UnlockForward(r)
    \/ \E r \in Reqs : NextReturns(r)
    \/ \E r \in Reqs : NextPanics(r)
    \/ \E r \in Reqs : NextFails(r)
    \/ Tick

SpecBurst == InitBurst /\ [][NextBurst]_vars

----------------------------------------------------------------------------
(* The minutes after the idle threshold has first passed: a client seen     *)
(* before is in the map, it and a client never seen have one request left  *)
(* to send, and the clock goes minute by minute.                           *)

MaxMinutes == 4     \* minutes the clock runs on before it waits for the map

\* When the client in the map was last seen
InitSeen == { 0, Minute, 2 * Minute, IdleMinutes * Minute }

\* A client whose one token was taken when it was last seen
SeenClient(seen) ==
    [id |-> 1, used |-> TRUE,
     limiter |-> [NewLimiter(DefaultRps, 1) EXCEPT !.tokens = 0, !.last = seen],
     lastSeen |-> seen]

InitSweep ==
    /\ cfg = [enabled |-> TRUE, rps |-> DefaultRps, burst |-> 1]
    /\ now = IdleMinutes * Minute
    /\ mu = FALSE
    /\ \E seen \in InitSeen : clients = ("10.0.0.1" :> SeenClient(seen))
    /\ req = [r \in Reqs |-> NoReq]
    /\ sw = [NoSweep EXCEPT !.wake = IdleMinutes * Minute]
    /\ gen = [ip \in IPs |-> IF ip = "10.0.0.1" THEN 1 ELSE 0]
    /\ evicted = [ip \in IPs |-> 0]
    /\ win = [ip \in IPs |-> <<>>]
    /\ last = NoReq
    /\ served = [ip \in IPs |-> IF ip = "10.0.0.1" THEN Budget(ip) - 1 ELSE 0]
    /\ fwd = [ip \in IPs |-> IF ip = "10.0.0.1" THEN 1 ELSE 0]
    /\ srv = NoServe
    /\ auth = NoAuth

\* The clock runs on for MaxMinutes, and from then on only up to the next
\* pass of the cleanup loop and only while a client is left in the map
TickMinute ==
    /\ \/ now < (IdleMinutes + MaxMinutes) * Minute
       \/ sw.pc = "sleep" /\ now < sw.wake /\ clients # << >>
    /\ now' = now + Minute
    /\ NewInstant
    /\ UNCHANGED <<cfg, mu, clients, sw, gen, evicted, last, served, fwd, srv, auth>>

NextSweep ==
    \/ \E r \in Reqs, a \in Addrs : BeginBadAddr(r, a)
    \/ \E r \in Reqs, a \in Addrs : BeginOk(r, a)
    \/ \E r \in Reqs : Error(r)
    \/ \E r \in Reqs : Lock(r)
    \/ \E r \in Reqs : Insert(r)
    \/ \E r \in Reqs : Touch(r)
    \/ \E r \in Reqs : Allow(r)
    \/ \E r \in Reqs : UnlockReject(r)
    \/ \E r \in Reqs : Reject(r)
    \/ \E r \in Reqs : UnlockForward(r)
    \/ \E r \in Reqs : NextReturns(r)
    \/ \E r \in Reqs : NextPanics(r)
    \/ SweepLock
    \/ \E ip \in IPs : SweepVisit(ip)
    \/ SweepUnlock
    \/ TickMinute

SpecSweep == InitSweep /\ [][NextSweep]_vars

\* The clock advances; the statements between mu.Lock and mu.Unlock do not
\* block; mu.Lock of the cleanup goroutine is served when the mutex is free
\* again and again.
CriticalStep ==
    \E r \in Reqs : Insert(r) \/ Touch(r) \/ Allow(r)
                       \/ UnlockReject(r) \/ UnlockForward(r)

SpecSweepFair ==
    /\ SpecSweep
    /\ WF_vars(TickMinute)
    /\ WF_vars(CriticalStep)
    /\ SF_vars(SweepLock)
    /\ WF_vars(\E ip \in IPs : SweepVisit(ip))
    /\ WF_vars(SweepUnlock)

----------------------------------------------------------------------------
(* Server start.  serve() builds the handler chain once (part_003 line 27,  *)
(* routes.go 142) before it listens (line 107): the call of rateLimit makes *)
(* the mutex, the map and the cleanup goroutine.                           *)

\* main.go 131-133: the limiter flags as parsed, each at or off its default
Flags == [enabled : BOOLEAN, rps : {1, DefaultRps}, burst : {1, 2}]

InitBoot ==
    /\ cfg \in Flags
    /\ now = 0
    /\ mu = FALSE
    /\ clients = << >>
    /\ req = [r \in Reqs |-> NoReq]
    /\ sw = [NoSweep EXCEPT !.pc = "boot", !.wake = 0, !.started = 0]
    /\ gen = [ip \in IPs |-> 0]
    /\ evicted = [ip \in IPs |-> 0]
    /\ win = [ip \in IPs |-> <<>>]
    /\ last = NoReq
    /\ served = [ip \in IPs |-> 0]
    /\ fwd = [ip \in IPs |-> 0]
    /\ srv = NoServe
    /\ auth = NoAuth

RateLimitAgain ==
    /\ sw.pc \in {"boot", "sleep"}
    /\ sw.started < 2
    /\ mu' = FALSE
    /\ clients' = << >>
    /\ sw' = [sw EXCEPT !.pc = "sleep", !.wake = now + Minute, !.started = @ + 1]
    /\ UNCHANGED <<cfg, now, req, gen, evicted, win, last, served, fwd, srv, auth>>

\* middleware.go 53-93: var mu, clients; go func() { for { ... } }(); the
\* goroutine starts at its time.Sleep(time.Minute)
RateLimit ==
    /\ sw.pc = "boot"
    /\ mu' = FALSE
    /\ clients' = << >>
    /\ sw' = [sw EXCEPT !.pc = "sleep", !.wake = now + Minute, !.started = @ + 1]
    /\ UNCHANGED <<cfg, now, req, gen, evicted, win, last, served, fwd, srv, auth>>

\* part_003 line 107: srv.ListenAndServe() runs once the chain is built
Serving == sw.pc # "boot"

NextBoot ==
    \/ RateLimit
    \/ Serving /\ \E r \in Reqs, a \in Addrs : BeginDisabled(r, a)
    \/ Serving /\ \E r \in Reqs, a \in Addrs : BeginBadAddr(r, a)
    \/ Serving /\ \E r \in Reqs, a \in Addrs : BeginOk(r, a)
    \/ \E r \in Reqs : Error(r)
    \/ \E r \in Reqs : Lock(r)
    \/ \E r \in Reqs : Insert(r)
    \/ \E r \in Reqs : Touch(r)
    \/ \E r \in Reqs : Allow(r)
    \/ \E r \in Reqs : UnlockReject(r)
    \/ \E r \in Reqs : Reject(r)
    \/ \E r \in Reqs : UnlockForward(r)
    \/ \E r \in Reqs : NextReturns(r)
    \/ SweepLock
    \/ \E ip \in IPs : SweepVisit(ip)
    \/ SweepUnlock
    \/ Serving /\ TickJump

SpecBoot == InitBoot /\ [][NextBoot]_vars

----------------------------------------------------------------------------
(* A limiter that never refills: -limiter-rps=0 -limiter-burst=1.  The     *)
(* clock goes in long steps.                                               *)

InitSlow ==
    /\ cfg = [enabled |-> TRUE, rps |-> 0, burst |-> 1]
    /\ now = 0
    /\ mu = FALSE
    /\ clients = << >>
    /\ req = [r \in Reqs |-> NoReq]
    /\ sw = NoSweep
    /\ gen = [ip \in IPs |-> 0]
    /\ evicted = [ip \in IPs |-> 0]
    /\ win = [ip \in IPs |-> <<>>]
    /\ last = NoReq
    /\ served = [ip \in IPs |-> 0]
    /\ fwd = [ip \in IPs |-> 0]
    /\ srv = NoServe
    /\ auth = NoAuth

NextSlow ==
    \/ \E r \in Reqs, a \in Addrs : BeginBadAddr(r, a)
    \/ \E r \in Reqs, a \in Addrs : BeginOk(r, a)
    \/ \E r \in Reqs : Error(r)
    \/ \E r \in Reqs : Lock(r)
    \/ \E r \in Reqs : Insert(r)
    \/ \E r \in Reqs : Touch(r)
    \/ \E r \in Reqs : Allow(r)
    \/ \E r \in Reqs : UnlockReject(r)
    \/ \E r \in Reqs : Reject(r)
    \/ \E r \in Reqs : UnlockForward(r)
    \/ \E r \in Reqs : NextReturns(r)
    \/ SweepLock
    \/ \E ip \in IPs : SweepVisit(ip)
    \/ SweepUnlock
    \/ TickJump

SpecSlow == InitSlow /\ [][NextSlow]_vars

\* The limiter enabled with a burst of one, from the start of the server
InitGate ==
    /\ cfg = [enabled |-> TRUE, rps |-> DefaultRps, burst |-> 1]
    /\ now = 0
    /\ mu = FALSE
    /\ clients = << >>
    /\ req = [r \in Reqs |-> NoReq]
    /\ sw = NoSweep
    /\ gen = [ip \in IPs |-> 0]
    /\ evicted = [ip \in IPs |-> 0]
    /\ win = [ip \in IPs |-> <<>>]
    /\ last = NoReq
    /\ served = [ip \in IPs |-> 0]
    /\ fwd = [ip \in IPs |-> 0]
    /\ srv = NoServe
    /\ auth = NoAuth

\* Scheduling of the gate.  The statements of a handler do not block, so a
\* goroutine that can take its next step takes it; mu.Lock() blocks, and a
\* goroutine waiting in it gets the mutex when the mutex is released again
\* and again (sync.Mutex hands a starving waiter the mutex).  Nothing is
\* asked of the clock or of the next handler.
SpecGateFair ==
    /\ InitGate /\ [][NextSlow]_vars
    /\ \A r \in Reqs :
          /\ SF_vars(Lock(r))
          /\ WF_vars(Error(r))
          /\ WF_vars(Reject(r))
    /\ WF_vars(CriticalStep)
    /\ SF_vars(SweepLock)
    /\ WF_vars(\E ip \in IPs : SweepVisit(ip))
    /\ WF_vars(SweepUnlock)

----------------------------------------------------------------------------
(* serve() (part_003) and background() (part_005 278-289): the main         *)
(* goroutine in srv.ListenAndServe, the goroutine that waits for SIGINT or  *)
(* SIGTERM, and the background tasks the handlers launch.  shutdownError is *)
(* an unbuffered channel: a send and a receive happen together.            *)

gate == <<cfg, now, mu, clients, req, sw, gen, evicted, win, last, served, fwd,
          auth>>

InitShut ==
    /\ cfg = DefaultConfig
    /\ now = 0
    /\ mu = FALSE
    /\ clients = << >>
    /\ req = [r \in Reqs |-> NoReq]
    /\ sw = NoSweep
    /\ gen = [ip \in IPs |-> 0]
    /\ evicted = [ip \in IPs |-> 0]
    /\ win = [ip \in IPs |-> <<>>]
    /\ last = NoReq
    /\ served = [ip \in IPs |-> 0]
    /\ fwd = [ip \in IPs |-> 0]
    /\ srv = NoServe
    /\ auth = NoAuth

\* part_005 278-289 (called at tokens.go 320): go func() { defer recover;
\* fn() }().  The handlers run until the process ends or Shutdown has
\* returned; app.wg is not touched.
Background(t) ==
    /\ srv.main # "returned" /\ srv.sig \in {"quit", "shutdown"}
    /\ srv.tasks[t] = "none"
    /\ \A u \in Tasks : u < t => srv.tasks[u] # "none"
    /\ srv' = [srv EXCEPT !.tasks[t] = "running"]
    /\ UNCHANGED gate

\* part_005 280-288: fn() returns, or panics and the deferred recover logs
TaskEnds(t, how) ==
    /\ srv.main # "returned"
    /\ srv.tasks[t] = "running"
    /\ srv' = [srv EXCEPT !.tasks[t] = how]
    /\ UNCHANGED gate

\* part_003 107-110: ListenAndServe fails (not ErrServerClosed): return err
ListenFails ==
    /\ srv.main = "listen" /\ ~srv.closed
    /\ srv' = [srv EXCEPT !.main = "returned", !.result = "listen"]
    /\ UNCHANGED gate

\* part_003 54-69: a signal arrives
Signal ==
    /\ srv.main # "returned"
    /\ srv.sig = "quit"
    /\ srv' = [srv EXCEPT !.sig = "shutdown"]
    /\ UNCHANGED gate

\* part_003 75-78: srv.Shutdown(ctx) closes the listeners and returns nil,
\* or an error when the five seconds are over first
Shutdown(e) ==
    /\ srv.main # "returned"
    /\ srv.sig = "shutdown"
    /\ srv' = [srv EXCEPT !.closed = TRUE, !.err = e,
                          !.sig = IF e # "nil" THEN "senderr" ELSE "logwait"]
    /\ UNCHANGED gate

\* part_003 107-115: ListenAndServe returns ErrServerClosed; the main
\* goroutine goes on to receive from shutdownError
ListenCloses ==
    /\ srv.main = "listen" /\ srv.closed
    /\ srv' = [srv EXCEPT !.main = "recv"]
    /\ UNCHANGED gate

\* part_003 115-127: what serve() returns for the value it received
Received(v) ==
    [srv EXCEPT !.main = "returned", !.result = v, !.sent = @ + 1]

\* part_003 77 with 115-118: the error goes over the channel; serve()
\* returns it; the goroutine goes on to line 82
SendErr ==
    /\ srv.sig = "senderr" /\ srv.main = "recv"
    /\ srv' = [Received(srv.err) EXCEPT !.sig = "logwait"]
    /\ UNCHANGED gate

\* part_003 82-93: the log line, then app.wg.Wait() returns when the
\* counter is zero
Wait ==
    /\ srv.sig = "logwait"
    /\ srv.wg = 0
    /\ srv' = [srv EXCEPT !.sig = "sendnil"]
    /\ UNCHANGED gate

\* part_003 94 with 115-127: nil goes over the channel; serve() logs
\* "stopped server" and returns nil; the goroutine ends
SendNil ==
    /\ srv.sig = "sendnil" /\ srv.main = "recv"
    /\ srv' = [Received("nil") EXCEPT !.sig = "done"]
    /\ UNCHANGED gate

NextShut ==
    \/ \E t \in Tasks : Background(t)
    \/ \E t \in Tasks : TaskEnds(t, "done")
    \/ \E t \in Tasks : TaskEnds(t, "panicked")
    \/ ListenFails
    \/ Signal
    \/ Shutdown("nil")
    \/ Shutdown("context deadline exceeded")
    \/ ListenCloses
    \/ SendErr
    \/ Wait
    \/ SendNil

SpecShut == InitShut /\ [][NextShut]_vars

----------------------------------------------------------------------------
(* authenticate (middleware.go 151-220) and the wrappers of a route:        *)
(* requirePermission (278-309), requireActivatedUser (226-248) and          *)
(* requireAuthenticatedUser (252-268).                                     *)

\* Token plaintexts: 26 bytes as the tokens the server issues, or not
Plain(c) == [i \in 1..26 |-> c]
Plaintexts == { << >>, <<"a", "b">>, Plain("a"), Plain("b"), Plain("c"),
                Plain("d"), Plain("u") }

\* sha256.Sum256, the key of the tokens table
Hash(t) == <<"sha256", t>>

\* The users table, and the zero user that stands for no user
Users == { [id |-> 1, activated |-> TRUE], [id |-> 2, activated |-> FALSE],
           [id |-> 3, activated |-> TRUE] }
AnonymousUser == [id |-> 0, activated |-> FALSE]
IsAnonymous(u) == u = AnonymousUser

\* The tokens table: expiry > time.Now() holds of the rows that are live
TokensTable ==
    { [hash |-> Hash(Plain("a")), userID |-> 1, scope |-> "authentication",
       live |-> TRUE],
      [hash |-> Hash(Plain("b")), userID |-> 2, scope |-> "authentication",
       live |-> TRUE],
      [hash |-> Hash(Plain("c")), userID |-> 3, scope |-> "authentication",
       live |-> TRUE],
      [hash |-> Hash(Plain("d")), userID |-> 1, scope |-> "activation",
       live |-> TRUE],
      [hash |-> Hash(Plain("u")), userID |-> 3, scope |-> "authentication",
       live |-> FALSE] }

\* The users_permissions table, as the codes each user holds in order
PermissionsTable ==
    [id \in {1, 2, 3} |->
        IF id = 1 THEN <<"events:read", "events:write">>
        ELSE IF id = 2 THEN <<"events:read">>
        ELSE << >>]

\* The Authorization headers: none, and one to three words
Headers ==
    { << >>, <<"Bearer">>, <<"Bearer", Plain("a"), "x">> }
    \cup { <<"Basic", t>> : t \in {Plain("a")} }
    \cup { <<"Bearer", t>> : t \in Plaintexts }

\* The permission code of the route; "" for a route outside requirePermission
Routes == {"", "events:read", "events:write"}

\* The answers of the database: the rows, or an error
DBResults == {"rows", "error"}

\* part_012 253-264: ValidateTokenPlaintext
ValidTokenPlaintext(t) == t # << >> /\ Len(t) = 26

\* part_011 241-325: GetForToken
GetForToken(scope, t, db) ==
    LET rows == { k \in TokensTable :
                    k.hash = Hash(t) /\ k.scope = scope /\ k.live }
    IN  IF db = "error" THEN [err |-> "db", user |-> AnonymousUser]
        ELSE IF rows = {} THEN [err |-> "record not found", user |-> AnonymousUser]
        ELSE [err |-> "",
              user |-> CHOOSE u \in Users : \E k \in rows : u.id = k.userID]

\* part_009 20-27: Permissions.Include
Include(p, code) == \E i \in 1..Len(p) : p[i] = code

\* part_009 33-66: GetAllForUser
GetAllForUser(id, db) ==
    IF db = "error" THEN [err |-> "db", permissions |-> << >>]
    ELSE [err |-> "",
          permissions |-> IF id \in DOMAIN PermissionsTable
                          THEN PermissionsTable[id] ELSE << >>]

rest == <<cfg, now, mu, clients, req, sw, gen, evicted, win, last, served, fwd,
          srv>>

InitAuth ==
    /\ cfg = DefaultConfig
    /\ now = 0
    /\ mu = FALSE
    /\ clients = << >>
    /\ req = [r \in Reqs |-> NoReq]
    /\ sw = NoSweep
    /\ gen = [ip \in IPs |-> 0]
    /\ evicted = [ip \in IPs |-> 0]
    /\ win = [ip \in IPs |-> <<>>]
    /\ last = NoReq
    /\ served = [ip \in IPs |-> 0]
    /\ fwd = [ip \in IPs |-> 0]
    /\ srv = NoServe
    /\ auth = NoAuth

\* The gate passes a request on to authenticate
Arrive(h, route) ==
    /\ auth.pc = "idle"
    /\ auth' = [NoAuth EXCEPT !.pc = "authenticate", !.header = h,
                               !.route = route]
    /\ UNCHANGED rest

\* An error response ends the request
Answer(a, resp) == [a EXCEPT !.pc = "done", !.resp = resp]

\* part_002 22-25 and the call of next.ServeHTTP(w, r)
PassOn(a, user) == [a EXCEPT !.pc = "router", !.ctx = <<user>>, !.next = @ + 1]

AuthenticateForgetsUser(db) ==
    /\ auth.pc = "authenticate"
    /\ LET h == auth.header IN
       auth' =
         IF h = << >> THEN [auth EXCEPT !.pc = "router", !.next = @ + 1]
         ELSE IF Len(h) # 2 \/ h[1] # "Bearer"
              THEN Answer(auth, "invalidAuthenticationToken")
         ELSE IF ~ValidTokenPlaintext(h[2])
              THEN Answer(auth, "invalidAuthenticationToken")
         ELSE LET got == GetForToken("authentication", h[2], db) IN
              IF got.err = "record not found"
              THEN Answer(auth, "invalidAuthenticationToken")
              ELSE IF got.err # "" THEN Answer(auth, "serverError")
              ELSE PassOn(auth, got.user)
    /\ UNCHANGED rest

\* middleware.go 151-220: authenticate
Authenticate(db) ==
    /\ auth.pc = "authenticate"
    /\ LET h == auth.header IN
       auth' =
         IF h = << >> THEN PassOn(auth, AnonymousUser)
         ELSE IF Len(h) # 2 \/ h[1] # "Bearer"
              THEN Answer(auth, "invalidAuthenticationToken")
         ELSE IF ~ValidTokenPlaintext(h[2])
              THEN Answer(auth, "invalidAuthenticationToken")
         ELSE LET got == GetForToken("authentication", h[2], db) IN
              IF got.err = "record not found"
              THEN Answer(auth, "invalidAuthenticationToken")
              ELSE IF got.err # "" THEN Answer(auth, "serverError")
              ELSE PassOn(auth, got.user)
    /\ UNCHANGED rest

\* routes.go 43-139: the router calls the handler of the route, wrapped in
\* requirePermission (line 308: requireActivatedUser(fn), line 247:
\* requireAuthenticatedUser(fn)) when the route asks for a permission
Router ==
    /\ auth.pc = "router"
    /\ auth' = [auth EXCEPT !.pc = IF auth.route = "" THEN "handler"
                                   ELSE "requireAuthenticatedUser"]
    /\ UNCHANGED rest

\* part_002 31-37: contextGetUser panics when the context holds no user;
\* recoverPanic answers
Panic(a) == [Answer(a, "serverError") EXCEPT !.panicked = TRUE]

\* middleware.go 253-267
RequireAuthenticatedUser ==
    /\ auth.pc = "requireAuthenticatedUser"
    /\ auth' =
         IF auth.ctx = << >> THEN Panic(auth)
         ELSE LET a == [auth EXCEPT !.checks = Append(@, "authenticated")] IN
              IF IsAnonymous(auth.ctx[1])
              THEN Answer(a, "authenticationRequired")
              ELSE [a EXCEPT !.pc = "requireActivatedUser"]
    /\ UNCHANGED rest

RequireActivatedUserSkipped ==
    /\ auth.pc = "requireActivatedUser"
    /\ auth' =
         IF auth.ctx = << >> THEN Panic(auth)
         ELSE [auth EXCEPT !.checks = Append(@, "activated"),
                           !.pc = "requirePermission"]
    /\ UNCHANGED rest

\* middleware.go 229-243
RequireActivatedUser ==
    /\ auth.pc = "requireActivatedUser"
    /\ auth' =
         IF auth.ctx = << >> THEN Panic(auth)
         ELSE LET a == [auth EXCEPT !.checks = Append(@, "activated")] IN
              IF ~auth.ctx[1].activated
              THEN Answer(a, "inactiveAccount")
              ELSE [a EXCEPT !.pc = "requirePermission"]
    /\ UNCHANGED rest

\* middleware.go 283-304
RequirePermission(db) ==
    /\ auth.pc = "requirePermission"
    /\ auth' =
         IF auth.ctx = << >> THEN Panic(auth)
         ELSE LET a == [auth EXCEPT !.checks = Append(@, "permission")]
                  got == GetAllForUser(auth.ctx[1].id, db) IN
              IF got.err # "" THEN Answer(a, "serverError")
              ELSE IF ~Include(got.permissions, auth.route)
                   THEN Answer(a, "notPermitted")
              ELSE [a EXCEPT !.pc = "handler"]
    /\ UNCHANGED rest

\* The handler of the route runs and returns
Handler ==
    /\ auth.pc = "handler"
    /\ auth' = [auth EXCEPT !.pc = "done", !.ran = @ + 1]
    /\ UNCHANGED rest

\* The request is over
Done ==
    /\ auth.pc = "done"
    /\ auth' = NoAuth
    /\ UNCHANGED rest

NextAuth ==
    \/ \E h \in Headers, route \in Routes : Arrive(h, route)
    \/ \E db \in DBResults : Authenticate(db)
    \/ Router
    \/ RequireAuthenticatedUser
    \/ RequireActivatedUser
    \/ \E db \in DBResults : RequirePermission(db)
    \/ Handler
    \/ Done

SpecAuth == InitAuth /\ [][NextAuth]_vars

----------------------------------------------------------------------------
(* Properties *)

InCS(r) == req[r].pc \in {"insert", "touch", "allow", "unlockrej", "unlockfwd"}
Present(ip) == IF ip \in DOMAIN clients THEN 1 ELSE 0
EntryOf(ip) == IF ip \in DOMAIN clients THEN {clients[ip]} ELSE {}
\* The client whose request goroutine r takes the step
Acting(r) == IF req[r].pc = "idle" THEN req'[r].ip ELSE req[r].ip

\* C1: the map holds at most one client per IP; every client created for an
\* IP but the one in the map has been deleted by the cleanup goroutine, so
\* requests racing on an unseen IP create one bucket, and every Allow() of
\* this instant went to the bucket in the map or to one deleted since.
C1_OneBucketPerIdentity ==
    /\ DOMAIN clients \subseteq IPs
    /\ \A ip \in IPs :
        /\ gen[ip] = evicted[ip] + Present(ip)
        /\ ip \in DOMAIN clients => clients[ip].id = gen[ip]
        /\ \A j \in 1..Len(win[ip]) :
              win[ip][j].id = gen[ip] \/ win[ip][j].id <= evicted[ip]
        /\ \A r \in Reqs :
              req[r].ip = ip /\ req[r].pc = "insert" => ip \notin DOMAIN clients

C1_Witness ==
    \E ip \in IPs : \E r, q \in Reqs :
        /\ r # q /\ req[r].ip = ip /\ req[q].ip = ip
        /\ req[r].nInsert = 1 /\ req[r].nAllow = 1
        /\ req[q].nInsert = 0 /\ req[q].nAllow = 1
        /\ gen[ip] = 1 /\ Len(win[ip]) = 2
        /\ win[ip][1].id = win[ip][2].id

C3_NextOnce ==
    /\ last.outcome = "FORWARD" => last.nextCalls = 1
    /\ last.outcome \in {"REJECT", "ERROR"} => last.nextCalls = 0
    /\ \A r \in Reqs :
          req[r].nextCalls = IF req[r].pc = "downstream" THEN 1 ELSE 0

C3_Witness ==
    /\ last.outcome = "REJECT" /\ last.nextCalls = 0
    /\ \E r \in Reqs : req[r].pc = "downstream" /\ req[r].nAllow = 1

\* C4: when the first Allow() of an instant is the first on its bucket, the
\* calls on that bucket at that instant are admitted up to the burst and
\* rejected from there on, and each request goes the way of its call.
C4_FreshBucketFull ==
    /\ \A ip \in IPs :
        LET w == win[ip] IN
        (w # <<>> /\ w[1].first) =>
            \A j \in 1..Len(w) : w[j].id = w[1].id => (w[j].ok <=> j <= cfg.burst)
    /\ \A r \in Reqs :
        req[r].seq > 0 =>
            /\ req[r].seq <= Len(win[req[r].ip])
            /\ req[r].pc \in {"unlockfwd", "downstream"} <=> win[req[r].ip][req[r].seq].ok
            /\ req[r].pc \in {"unlockrej", "respond"} <=> ~win[req[r].ip][req[r].seq].ok

C4_Witness ==
    /\ cfg.rps = DefaultRps /\ cfg.burst = DefaultBurst
    /\ \E ip \in IPs :
        /\ Len(win[ip]) = DefaultBurst + 1
        /\ win[ip][1].first
        /\ \A j \in 1..DefaultBurst : win[ip][j].ok
        /\ ~win[ip][DefaultBurst + 1].ok
        /\ \E r \in Reqs : req[r].seq = DefaultBurst + 1 /\ req[r].pc = "respond"

\* C5: on a bucket emptied by its last admitted call, the first Allow() made
\* exactly 1/rps seconds later is admitted and every later call of that
\* instant is rejected; a call made sooner is rejected.
C5_Refill ==
    \A ip \in IPs :
        LET w == win[ip] IN
        (w # <<>> /\ w[1].had = 0) =>
            /\ (now - w[1].from) * cfg.rps = Token =>
                  /\ w[1].ok
                  /\ \A j \in 2..Len(w) : w[j].id = w[1].id => ~w[j].ok
            /\ (now - w[1].from) * cfg.rps < Token => ~w[1].ok

C5_Witness ==
    /\ cfg.rps = DefaultRps /\ cfg.burst = DefaultBurst
    /\ 2 * now = Second
    /\ \E ip \in IPs :
        /\ Len(win[ip]) = 2
        /\ win[ip][1].had = 0 /\ win[ip][1].from = 0
        /\ win[ip][1].ok /\ ~win[ip][2].ok
        /\ served[ip] = DefaultBurst + 2

\* C6: a step of a request changes no other IP's client (bucket, last seen)
\* and adds no call to its history; and an Allow() that finds a whole token
\* in its bucket is admitted whatever the other clients' buckets hold.
C6_StepFrame ==
    \A r \in Reqs :
        (now' = now /\ req'[r] # req[r]) =>
            \A ip \in IPs :
                ip # Acting(r) => /\ EntryOf(ip)' = EntryOf(ip)
                                  /\ win'[ip] = win[ip]

C6_TokenAdmits ==
    \A ip \in IPs : \A j \in 1..Len(win[ip]) :
        win[ip][j].pre >= Token => win[ip][j].ok

C6_PerIdentity == [][C6_StepFrame]_vars /\ []C6_TokenAdmits

C6_Witness ==
    \E r, q \in Reqs :
        /\ req[r].pc = "respond" /\ req[q].pc = "downstream"
        /\ req[r].ip # req[q].ip /\ req[q].ip # ""
        /\ req[r].seq > 0 /\ req[q].seq > 0
        /\ win[req[q].ip][req[q].seq].ok

\* C7: with the limiter disabled every request goes to the next handler, no
\* request is rejected or answered 429, and the map stays empty: no client
\* is ever created and no request takes the mutex.
C7_Disabled ==
    ~cfg.enabled =>
        /\ clients = << >>
        /\ \A ip \in IPs : gen[ip] = 0 /\ evicted[ip] = 0 /\ win[ip] = <<>>
        /\ \A r \in Reqs : req[r].pc \in {"idle", "downstream"} /\ ~req[r].took
        /\ ~last.took
        /\ last.outcome \in {"none", "FORWARD"}
        /\ last.status # 429
        /\ last.outcome = "FORWARD" => last.nextCalls = 1

C7_Witness ==
    /\ ~cfg.enabled
    /\ last.outcome = "FORWARD" /\ ~last.bad
    /\ \A ip \in IPs : served[ip] >= 1
    /\ \E r \in Reqs : req[r].pc = "downstream"

\* C8 as stated: a request whose address does not split returns ERROR and
\* never enters the next handler, whether the limiter is enabled or not.
C8_Original ==
    last.bad => last.outcome = "ERROR" /\ last.nextCalls = 0

\* C8 as amended: the gate reads the enabled flag before it splits the
\* address.  A request whose address does not split returns ERROR (500, the
\* next handler not entered) when the limiter is enabled; when it is
\* disabled the address is not split and the request is forwarded.
C8_EnabledFirst ==
    /\ last.bad /\ cfg.enabled =>
          /\ last.outcome = "ERROR" /\ last.nextCalls = 0
          /\ last.status = StatusInternalServerError
    /\ last.bad /\ ~cfg.enabled => last.outcome = "FORWARD" /\ last.nextCalls = 1
    /\ last.outcome = "ERROR" => last.bad /\ cfg.enabled

C8_Witness ==
    ~cfg.enabled /\ last.bad /\ last.outcome = "FORWARD"

\* C9: with the limiter enabled, a request whose address does not split
\* returns ERROR: answered 500 and not 429, logged, the mutex never taken,
\* no client created or touched, no Allow() called, the next handler not
\* entered.
C9_BadAddress ==
    /\ cfg.enabled /\ last.bad => last.outcome = "ERROR"
    /\ last.outcome = "ERROR" =>
          /\ last.status = StatusInternalServerError /\ last.status # 429
          /\ last.logged /\ ~last.took
          /\ last.nInsert = 0 /\ last.nTouch = 0 /\ last.nAllow = 0
          /\ last.nextCalls = 0
    /\ \A r \in Reqs :
          req[r].pc = "error" =>
              /\ ~req[r].holds /\ ~req[r].took
              /\ req[r].nInsert = 0 /\ req[r].nTouch = 0 /\ req[r].nAllow = 0

C9_Witness ==
    /\ cfg.enabled /\ last.outcome = "ERROR" /\ last.bad
    /\ clients # << >>

\* C10: no request holds the mutex while it waits for it, writes a response
\* or runs the next handler; the mutex is locked only while a request is
\* between Lock and Unlock or the cleanup loop runs, so a request in the
\* next handler keeps nobody out of the map.
C10_LockReleased ==
    /\ \A r \in Reqs : ~InCS(r) => ~req[r].holds
    /\ \A r \in Reqs : InCS(r) => req[r].holds /\ mu
    /\ mu => (\E r \in Reqs : InCS(r)) \/ sw.pc = "range"

C10_Witness ==
    \E r, q \in Reqs :
        /\ req[r].pc = "downstream" /\ req[r].took
        /\ req[q].pc = "allow" /\ req[q].holds

\* The goroutines between mu.Lock and mu.Unlock
Inside == { r \in Reqs : InCS(r) }
Sweeping == IF sw.pc = "range" THEN 1 ELSE 0

\* C11: at most one goroutine is between mu.Lock and mu.Unlock: never two
\* request handlers, never a request handler and the cleanup loop.  While a
\* pass of the cleanup loop runs, requests only wait for the mutex, write
\* responses or run the next handler: none reads the map before the pass ends.
C11_MutualExclusion ==
    /\ Cardinality(Inside) + Sweeping <= 1
    /\ Cardinality(Inside) + Sweeping = 1 <=> mu
    /\ sw.pc = "range" =>
          \A r \in Reqs : req[r].pc \in {"idle", "lock", "error", "respond", "downstream"}

C11_Witness ==
    /\ sw.pc = "range" /\ sw.todo # {}
    /\ \E ip \in IPs : evicted[ip] >= 1 /\ ip \notin DOMAIN clients
    /\ \E r \in Reqs : req[r].pc = "lock"

\* C12: the step at line 125 writes time.Now() into the client's lastSeen
\* before Allow() is called, so whatever it answers: a request at or past
\* Allow(), admitted or rejected, has touched its client exactly once, and
\* while it still holds the mutex the client is in the map with a lastSeen
\* some request wrote.  A client leaves the map only when its lastSeen is
\* more than three minutes old, so one that keeps sending within three
\* minutes stays, even when every request of it is rejected.
C12_Touched ==
    /\ \A r \in Reqs :
          /\ req[r].pc \in {"allow", "unlockrej", "unlockfwd", "respond"} =>
                req[r].nTouch = 1
          /\ req[r].pc \in {"allow", "unlockrej", "unlockfwd"} =>
                /\ req[r].ip \in DOMAIN clients
                /\ clients[req[r].ip].lastSeen \in 0..now
    /\ last.outcome = "REJECT" => last.nTouch = 1
    /\ last.outcome = "FORWARD" /\ last.took => last.nTouch = 1

C12_TouchStep ==
    /\ \A r \in Reqs :
          req[r].pc = "touch" /\ req'[r].pc = "allow" =>
              clients'[req[r].ip].lastSeen = now
    /\ \A ip \in IPs :
          ip \in DOMAIN clients /\ ip \notin DOMAIN clients' =>
              now - clients[ip].lastSeen > IdleMinutes * Minute

C12_TouchAlways == []C12_Touched /\ [][C12_TouchStep]_vars

C12_Witness ==
    \E r \in Reqs :
        /\ req[r].pc = "respond" /\ req[r].seq > 0
        /\ now >= Jump /\ sw.wake > Minute
        /\ clients[req[r].ip].lastSeen = now
        /\ evicted[req[r].ip] = 0

\* C13: a pass of the cleanup loop visits every client that is in the map
\* when it takes the mutex; a visit deletes the client when its lastSeen is
\* more than three minutes old and leaves it as it is (same limiter, same
\* lastSeen) otherwise, and no step of the pass changes any other client.
C13_PassStep ==
    /\ sw.pc = "sleep" /\ sw'.pc = "range" =>
          sw'.todo = DOMAIN clients /\ clients' = clients
    /\ sw.pc = "range" /\ sw'.pc = "range" /\ sw' # sw =>
          /\ Cardinality(sw.todo \ sw'.todo) = 1
          /\ \A ip \in IPs :
                IF /\ ip \in sw.todo \ sw'.todo
                   /\ ip \in DOMAIN clients
                   /\ now - clients[ip].lastSeen > IdleMinutes * Minute
                THEN ip \notin DOMAIN clients'
                ELSE EntryOf(ip)' = EntryOf(ip)
    /\ sw.pc = "range" /\ sw'.pc = "sleep" =>
          sw.todo = {} /\ clients' = clients

C13_SweepPass == [][C13_PassStep]_vars

C13_Witness ==
    \E ip, jp \in IPs :
        /\ sw.pc = "range" /\ sw.todo = {}
        /\ now = 4 * Minute
        /\ gen[ip] = 1 /\ evicted[ip] = 1 /\ ip \notin DOMAIN clients
        /\ jp \in DOMAIN clients
        /\ now - clients[jp].lastSeen = 2 * Minute

\* Older than the idle threshold at time t
Old(c, t) == t - c.lastSeen > IdleMinutes * Minute

\* C14: after a pass of the cleanup loop, and until a request writes the map,
\* no later pass adds a client or changes one, and it deletes only clients
\* that have grown older than three minutes since that pass began: when no
\* client has, the map after the second pass is the map after the first.
\* The cleanup goroutine is always asleep or in its loop: it has no failure.
C14_SweepIdempotent ==
    /\ sw.pc \in {"sleep", "range"}
    /\ sw.passes >= 1 =>
          /\ DOMAIN clients \subseteq DOMAIN sw.after
          /\ \A ip \in DOMAIN clients : clients[ip] = sw.after[ip]
          /\ \A ip \in DOMAIN sw.after :
                (Old(sw.after[ip], now) <=> Old(sw.after[ip], sw.since))
                    => ip \in DOMAIN clients
          /\ (\A ip \in DOMAIN sw.after :
                Old(sw.after[ip], now) <=> Old(sw.after[ip], sw.since))
                    => clients = sw.after

C14_Witness ==
    /\ sw.passes = 2 /\ sw.pc = "sleep"
    /\ clients = sw.after /\ clients # << >>
    /\ \E ip \in IPs : evicted[ip] = 1 /\ ip \notin DOMAIN clients
    /\ \A ip \in DOMAIN clients : now - clients[ip].lastSeen <= IdleMinutes * Minute

\* A request of the IP is on its way to line 125
Sending(ip) ==
    \E r \in Reqs : req[r].ip = ip /\ req[r].pc \in {"lock", "insert", "touch"}

\* C15: when the clock advances and the cleanup goroutine is scheduled, the
\* client of an IP that from some time on sends no request is deleted from
\* the map and stays out of it.
C15_EventuallyEvicted ==
    \A ip \in IPs : <>[](~Sending(ip)) => <>[](ip \notin DOMAIN clients)

C15_Witness ==
    /\ clients = << >>
    /\ \A ip \in IPs : gen[ip] >= 1 /\ evicted[ip] = gen[ip] /\ served[ip] = Budget(ip)

\* C16: a request touches and calls Allow() on the client that is in the map
\* under its IP, never on one the cleanup loop has deleted: between its lookup
\* and its unlock the client is in the map and is the newest created for the
\* IP.  A request whose IP is absent at mu.Lock, deleted or never seen,
\* inserts a client with a full bucket and its own Allow() is the first on
\* it.  No request panics inside the gate.
C16_Fresh ==
    /\ \A r \in Reqs :
          /\ req[r].pc # "panic" /\ ~req[r].panicked
          /\ req[r].pc \in {"touch", "allow", "unlockrej", "unlockfwd"} =>
                /\ req[r].ip \in DOMAIN clients
                /\ clients[req[r].ip].id = gen[req[r].ip]
                /\ clients[req[r].ip].id > evicted[req[r].ip]
          /\ req[r].pc \in {"touch", "allow"} /\ req[r].nInsert = 1 =>
                /\ clients[req[r].ip].limiter.tokens = cfg.burst * Token
                /\ ~clients[req[r].ip].used
    /\ last.panicked => last.outcome = "FORWARD"

C16_LookupStep ==
    \A r \in Reqs :
        /\ req[r].pc = "lock" /\ req'[r].pc # "lock" =>
              (req'[r].pc = "insert" <=> req[r].ip \notin DOMAIN clients)
        /\ req[r].pc = "allow" /\ req'[r].pc \in {"unlockfwd", "unlockrej"} =>
              LET e == win'[req[r].ip][Len(win'[req[r].ip])] IN
              /\ e.id = gen[req[r].ip] /\ e.id > evicted[req[r].ip]
              /\ req[r].nInsert = 1 => e.first /\ e.pre = cfg.burst * Token

C16_NoStaleEntry == []C16_Fresh /\ [][C16_LookupStep]_vars

C16_Witness ==
    \E r \in Reqs :
        /\ req[r].nInsert = 1 /\ evicted[req[r].ip] >= 1
        /\ req[r].pc = "downstream" /\ req[r].seq > 0
        /\ win[req[r].ip][req[r].seq].id = evicted[req[r].ip] + 1
        /\ win[req[r].ip][req[r].seq].first
        /\ win[req[r].ip][req[r].seq].pre = cfg.burst * Token

\* C17: the tokens of every limiter in the map, as stored and as available
\* at the current time, lie between zero and burst, and so did the tokens
\* every Allow() of this instant found.
C17_TokenBounds ==
    /\ \A ip \in DOMAIN clients :
          LET lim == clients[ip].limiter IN
          /\ 0 <= lim.tokens /\ lim.tokens <= lim.burst * Token
          /\ 0 <= Advance(lim, now) /\ Advance(lim, now) <= lim.burst * Token
          /\ lim.burst = cfg.burst
    /\ \A ip \in IPs : \A j \in 1..Len(win[ip]) :
          /\ 0 <= win[ip][j].had /\ win[ip][j].had <= cfg.burst * Token
          /\ 0 <= win[ip][j].pre /\ win[ip][j].pre <= cfg.burst * Token

C17_Witness ==
    \E ip \in DOMAIN clients :
        /\ Len(win[ip]) >= 1 /\ ~win[ip][1].first
        /\ win[ip][1].had + (now - win[ip][1].from) * cfg.rps > cfg.burst * Token
        /\ win[ip][1].pre = cfg.burst * Token
        /\ clients[ip].limiter.tokens = 0

\* C18: a request calls Allow() once, after its touch and before its unlock.
\* The call of an admitted request leaves the limiter one token below what
\* was available, the call of a rejected request leaves the limiter as it
\* was.
C18_OneAttempt ==
    /\ \A r \in Reqs :
          /\ req[r].nAllow <= 1 /\ req[r].nInsert <= 1 /\ req[r].nTouch <= 1
          /\ req[r].pc \in {"unlockrej", "unlockfwd", "respond"} => req[r].nAllow = 1
          /\ req[r].pc = "downstream" /\ req[r].took => req[r].nAllow = 1
          /\ req[r].pc \in {"lock", "insert", "touch", "allow"} => req[r].nAllow = 0
    /\ last.took => last.nAllow = 1 /\ last.nTouch = 1
    /\ ~last.took => last.nAllow = 0

C18_AllowStep ==
    \A r \in Reqs :
        req[r].pc = "allow" /\ req'[r].pc # "allow" /\ now' = now =>
            LET lim == clients[req[r].ip].limiter
                lim2 == clients'[req[r].ip].limiter IN
            /\ req'[r].nAllow = req[r].nAllow + 1
            /\ req'[r].pc = "unlockfwd" =>
                  /\ lim2.tokens = Advance(lim, now) - Token
                  /\ Advance(lim2, now) = Advance(lim, now) - Token
            /\ req'[r].pc = "unlockrej" => lim2 = lim
            /\ req'[r].pc \in {"unlockfwd", "unlockrej"}

C18_ConsumeOnce == []C18_OneAttempt /\ [][C18_AllowStep]_vars

C18_Witness ==
    /\ last.outcome = "REJECT" /\ last.nAllow = 1
    /\ \E ip \in DOMAIN clients : \E j \in 1..Len(win[ip]) :
          /\ j < Len(win[ip])
          /\ win[ip][j].ok /\ win[ip][j].pre = Token
          /\ ~win[ip][j + 1].ok /\ win[ip][j + 1].pre = 0
          /\ clients[ip].limiter.tokens = 0

\* C19: a request that returned REJECT was answered 429 with the one-field
\* envelope {"error": message}; it was not logged, called Allow() once and
\* never entered the next handler.  From the 429 response the handler only
\* returns: the step writes nothing but the response.
C19_Rejected ==
    /\ last.outcome = "REJECT" =>
          /\ last.status = 429
          /\ Len(last.body) = 1
          /\ last.body[1][1] = "error" /\ last.body[1][2] # ""
          /\ ~last.logged /\ ~last.panicked
          /\ last.nAllow = 1 /\ last.nextCalls = 0
    /\ \A r \in Reqs :
          req[r].pc \in {"unlockrej", "respond"} =>
              /\ req[r].status = 0 /\ req[r].body = <<>>
              /\ ~req[r].logged /\ req[r].nAllow = 1 /\ req[r].nextCalls = 0

C19_RejectStep ==
    \A r \in Reqs :
        req[r].pc = "respond" /\ req'[r] # req[r] /\ now' = now =>
            /\ req'[r] = NoReq
            /\ last'.outcome = "REJECT"
            /\ UNCHANGED <<mu, clients, sw, gen, evicted>>

C19_RejectTerminal == []C19_Rejected /\ [][C19_RejectStep]_vars

C19_Witness ==
    /\ last.outcome = "REJECT" /\ last.status = 429
    /\ last.body = << <<"error", "rate limit exceeded">> >>
    /\ ~last.logged
    /\ \E r \in Reqs : req[r].pc = "downstream"

\* C20: recoverPanic is outside rateLimit in the chain.  A request in the
\* next handler does not hold the mutex; when the next handler panics the
\* request is answered 500 and logged, and the step changes neither the map
\* (the client and its tokens stay as Allow() left them) nor the mutex nor
\* the cleanup goroutine.  The mutex is locked only by a goroutine that is
\* in its section, so after a panic a waiting request finds it free.
C20_PanicState ==
    /\ Position("recoverPanic") < Position("rateLimit")
    /\ \A r \in Reqs : req[r].pc = "downstream" => ~req[r].holds
    /\ last.panicked =>
          /\ last.outcome = "FORWARD" /\ last.nextCalls = 1
          /\ last.status = StatusInternalServerError /\ last.logged
          /\ ~last.holds
    /\ last.panicked /\ mu => (\E r \in Reqs : InCS(r)) \/ sw.pc = "range"

C20_PanicStep ==
    \A r \in Reqs :
        req[r].pc = "downstream" /\ req'[r] = NoReq /\ last'.panicked =>
            /\ UNCHANGED <<mu, clients, sw, gen, evicted, win>>
            /\ \A q \in Reqs : q # r => req'[q] = req[q]

C20_PanicOutside == []C20_PanicState /\ [][C20_PanicStep]_vars

C20_Witness ==
    /\ last.panicked /\ last.took /\ last.nAllow = 1
    /\ ~mu
    /\ \E r \in Reqs :
          /\ req[r].pc = "lock"
          /\ req[r].ip \in DOMAIN clients
          /\ clients[req[r].ip].used
          /\ clients[req[r].ip].limiter.tokens = 0

\* C21: the decision of the gate is final.  While a request is in the next
\* handler, and when that handler returns, answers with an error or panics,
\* no step of the request changes the map, the mutex or the history of the
\* clients: the token Allow() took is not given back and lastSeen stays.  The
\* clock going on while the handler runs leaves every stored limiter as it
\* is.  A request that was rejected goes from its unlock to its response and
\* from there only returns: it never enters the next handler.
C21_Rejected ==
    /\ \A r \in Reqs :
          req[r].pc \in {"unlockrej", "respond"} => req[r].nextCalls = 0
    /\ last.outcome = "REJECT" => last.nextCalls = 0

C21_FinalStep ==
    /\ \A r \in Reqs :
          /\ req[r].pc = "downstream" /\ req'[r] # req[r] /\ now' = now =>
                /\ req'[r] = NoReq
                /\ last'.outcome = "FORWARD"
                /\ UNCHANGED <<mu, clients, gen, evicted, win>>
          /\ req[r].pc = "unlockrej" => req'[r].pc \in {"unlockrej", "respond"}
          /\ req[r].pc = "respond" => req'[r].pc \in {"respond", "idle"}
          /\ req[r].pc = "respond" /\ req'[r].pc = "idle" =>
                last'.outcome = "REJECT" /\ last'.nextCalls = 0
    /\ now' # now => clients' = clients

C21_DecisionFinal == []C21_Rejected /\ [][C21_FinalStep]_vars

C21_Witness ==
    /\ last.outcome = "FORWARD" /\ last.took /\ ~last.panicked
    /\ last.status = StatusInternalServerError
    /\ now = 1
    /\ \E ip \in DOMAIN clients :
          /\ clients[ip].limiter.tokens = (cfg.burst - 1) * Token
          /\ clients[ip].limiter.last = 0
          /\ served[ip] = 1

\* C22: one cleanup goroutine exists for the map.  It is not there before
\* rateLimit is called and is launched by that one call, together with the
\* mutex and the empty map; no later step launches another.  Once launched it
\* is asleep or in its loop and never ends: it goes from its sleep to the
\* loop only when a minute has passed and by taking the mutex, visits the
\* clients, and goes back to a sleep of one minute by releasing the mutex.
C22_One ==
    /\ sw.started <= 1
    /\ sw.pc \in {"boot", "sleep", "range"}
    /\ sw.pc = "boot" <=> sw.started = 0
    /\ sw.pc = "boot" =>
          /\ clients = << >> /\ ~mu
          /\ \A r \in Reqs : req[r].pc = "idle"
          /\ last = NoReq

C22_LoopStep ==
    /\ sw.pc = "boot" /\ sw'.pc # "boot" =>
          /\ sw'.pc = "sleep" /\ sw'.wake = now + Minute /\ sw'.started = 1
          /\ clients' = << >> /\ ~mu'
    /\ sw.pc # "boot" => sw'.pc \in {"sleep", "range"} /\ sw'.started = sw.started
    /\ sw.pc = "sleep" /\ sw'.pc = "sleep" => sw'.wake = sw.wake
    /\ sw.pc = "sleep" /\ sw'.pc = "range" =>
          /\ now >= sw.wake /\ ~mu /\ mu'
          /\ sw'.todo = DOMAIN clients
    /\ sw.pc = "range" /\ sw'.pc = "sleep" =>
          /\ sw.todo = {} /\ mu /\ ~mu'
          /\ sw'.wake = now + Minute

C22_OneSweeper == []C22_One /\ [][C22_LoopStep]_vars

C22_Witness ==
    /\ sw.started = 1 /\ sw.pc = "sleep"
    /\ sw.wake = 2 * Jump + Minute
    /\ \E ip \in IPs : evicted[ip] = 1
    /\ \E r \in Reqs : req[r].pc = "lock"

\* C23: no step writes the limiter flags, and every limiter in the map,
\* whether made for a client seen for the first time or for one that the
\* cleanup loop had deleted, has the configured rps as its limit and the
\* configured burst as its burst, and never holds more tokens than the burst.
C23_Buckets ==
    \A ip \in DOMAIN clients :
        /\ clients[ip].limiter.limit = cfg.rps
        /\ clients[ip].limiter.burst = cfg.burst
        /\ clients[ip].limiter.tokens <= cfg.burst * Token

C23_ConfigStep ==
    /\ cfg' = cfg
    /\ \A ip \in DOMAIN clients' :
          ip \notin DOMAIN clients =>
              clients'[ip].limiter = NewLimiter(cfg.rps, cfg.burst)

C23_ConfigFixed == []C23_Buckets /\ [][C23_ConfigStep]_vars

C23_Witness ==
    /\ cfg.rps = 1 /\ cfg.burst = 2
    /\ \E ip \in DOMAIN clients :
          /\ gen[ip] = 2 /\ evicted[ip] = 1
          /\ clients[ip].used
          /\ clients[ip].limiter.limit = 1 /\ clients[ip].limiter.burst = 2

\* C24: over the interval from the start of the server to the current time,
\* the requests of an IP that the gate passed to the next handler number at
\* most burst + rps * T, T being the length of the interval in seconds; also
\* when the cleanup loop has deleted the client of the IP in the interval and
\* a later request has made it anew.
C24_RateBound ==
    \A ip \in IPs : fwd[ip] * Token <= cfg.burst * Token + cfg.rps * now

\* The gate has decided on request r, or r is no request
Decided(r) == req[r].pc \in {"idle", "downstream"}

\* C25: a request takes the mutex once, at its lookup, and releases it once,
\* at line 134 or at line 144: it does not hold it when it answers, when it
\* is in the next handler or when it has returned, and the mutex is released
\* only by the goroutine that holds it.  Under fair scheduling every request
\* is decided (forwarded to the next handler, or returned REJECT or ERROR)
\* and every pass of the cleanup loop comes back to its sleep.
C25_Held ==
    /\ \A r \in Reqs :
          /\ req[r].holds <=> InCS(r)
          /\ req[r].holds => req[r].took /\ mu
          /\ req[r].pc \in {"respond", "downstream", "error", "idle", "lock"} =>
                ~req[r].holds
    /\ ~last.holds
    /\ last.outcome \in {"none", "FORWARD", "REJECT", "ERROR"}
    /\ last.outcome = "REJECT" => last.took
    /\ last.outcome = "ERROR" => ~last.took
    /\ mu <=> (\E r \in Reqs : req[r].holds) \/ sw.pc = "range"

C25_LockStep ==
    /\ \A r \in Reqs :
          /\ ~req[r].holds /\ req'[r].holds =>
                req[r].pc = "lock" /\ ~req[r].took /\ ~mu /\ mu'
          /\ req[r].holds /\ ~req'[r].holds =>
                /\ req[r].pc \in {"unlockrej", "unlockfwd"}
                /\ req'[r].pc \in {"respond", "downstream"}
                /\ mu /\ ~mu'
          /\ req[r].took /\ req'[r].pc # "idle" => req'[r].took
    /\ mu /\ ~mu' =>
          \/ \E r \in Reqs : req[r].holds /\ ~req'[r].holds
          \/ sw.pc = "range" /\ sw'.pc = "sleep"

C25_Live ==
    /\ \A r \in Reqs : ~Decided(r) ~> Decided(r)
    /\ sw.pc = "range" ~> sw.pc = "sleep"

C25_DeadlockFree == []C25_Held /\ [][C25_LockStep]_vars /\ C25_Live

C25_Witness ==
    /\ ~mu /\ sw.pc = "sleep"
    /\ \E ip \in IPs : evicted[ip] >= 1
    /\ last.outcome = "REJECT" /\ last.took
    /\ \E r \in Reqs : req[r].pc = "downstream" /\ req[r].took

\* C26: when serve() has returned nil after a shutdown, no background task
\* launched through app.background is still running.
C26_TasksFinished ==
    srv.main = "returned" /\ srv.result = "nil" =>
        \A t \in Tasks : srv.tasks[t] # "running"

\* C27: on the shutdown path the signal goroutine sends one value on
\* shutdownError, the error of srv.Shutdown or else nil after the wait, and
\* ends with that send: it never goes on to the wait or to a send after it has
\* sent; and serve() returns the value sent.
C27_OneOutcome ==
    /\ srv.sent <= 1
    /\ srv.sig \in {"logwait", "sendnil"} => srv.sent = 0
    /\ srv.sent = 1 => srv.main = "returned" /\ srv.result = srv.err

\* The checks of requirePermission, outermost first
AllChecks == <<"authenticated", "activated", "permission">>

\* The user value of the request context
User == auth.ctx[1]

\* C28: on a route wrapped by requirePermission the checks run in the order
\* authenticated, activated, permission.  The handler of the route is entered
\* only after all three, for a user that is not anonymous, is activated and
\* holds the code of the route.  The first check that fails answers the
\* request, and then no later check and no handler runs: a request answered
\* with authenticationRequired ran one check, with inactiveAccount two, with
\* notPermitted three, and an answered request only ends.
C28_Checks ==
    /\ auth.checks = SubSeq(AllChecks, 1, Len(auth.checks))
    /\ auth.ran <= 1
    /\ auth.route = "" => auth.checks = << >>
    /\ auth.route # "" =>
          /\ auth.pc = "requireActivatedUser" =>
                auth.checks = SubSeq(AllChecks, 1, 1) /\ ~IsAnonymous(User)
          /\ auth.pc = "requirePermission" =>
                /\ auth.checks = SubSeq(AllChecks, 1, 2)
                /\ ~IsAnonymous(User) /\ User.activated
          /\ auth.pc = "handler" \/ auth.ran = 1 =>
                /\ auth.checks = AllChecks
                /\ auth.resp = ""
                /\ ~IsAnonymous(User) /\ User.activated
                /\ Include(PermissionsTable[User.id], auth.route)
          /\ auth.resp = "authenticationRequired" =>
                /\ auth.checks = SubSeq(AllChecks, 1, 1)
                /\ IsAnonymous(User) /\ auth.ran = 0 /\ auth.pc = "done"
          /\ auth.resp = "inactiveAccount" =>
                /\ auth.checks = SubSeq(AllChecks, 1, 2)
                /\ ~User.activated /\ auth.ran = 0 /\ auth.pc = "done"
          /\ auth.resp = "notPermitted" =>
                /\ auth.checks = AllChecks
                /\ ~Include(PermissionsTable[User.id], auth.route)
                /\ auth.ran = 0 /\ auth.pc = "done"

C28_AnswerStep ==
    auth.pc = "done" /\ auth' # auth => auth' = NoAuth

C28_PermissionOrder == []C28_Checks /\ [][C28_AnswerStep]_vars

C28_Witness ==
    /\ auth.pc = "done" /\ auth.resp = "notPermitted"
    /\ auth.route = "events:write" /\ auth.checks = AllChecks
    /\ User.id = 3 /\ auth.ran = 0

\* The header holds "Bearer" and a token of 26 bytes that a live row of the
\* tokens table gives to the user u for authentication
Known(h, u) ==
    /\ Len(h) = 2 /\ h[1] = "Bearer" /\ Len(h[2]) = 26
    /\ \E k \in TokensTable :
          /\ k.hash = Hash(h[2]) /\ k.scope = "authentication" /\ k.live
          /\ u.id = k.userID

\* C29: authenticate calls its next handler at most once and only with a
\* user value in the request context: AnonymousUser when the request has no
\* Authorization header, otherwise the user of the users table that the
\* token belongs to.  So contextGetUser never panics in the wrappers of a
\* route.  A header that is malformed, or holds a token that is not valid
\* or not known, ends the request with an error response and the next
\* handler is not called.
C29_UserInContext ==
    /\ ~auth.panicked
    /\ auth.next <= 1
    /\ auth.pc \in {"router", "requireAuthenticatedUser", "requireActivatedUser",
                    "requirePermission", "handler"} => auth.next = 1
    /\ auth.next = 1 =>
          /\ Len(auth.ctx) = 1
          /\ auth.header = << >> => User = AnonymousUser
          /\ auth.header # << >> => User \in Users /\ Known(auth.header, User)
    /\ auth.next = 0 => auth.ctx = << >> /\ auth.ran = 0 /\ auth.checks = << >>
    /\ auth.pc = "done" /\ auth.header # << >>
          /\ (\A u \in Users : ~Known(auth.header, u)) =>
          /\ auth.next = 0
          /\ auth.resp \in {"invalidAuthenticationToken", "serverError"}
    /\ auth.pc = "done" /\ auth.next = 0 =>
          auth.resp \in {"invalidAuthenticationToken", "serverError"}

C29_Witness ==
    /\ auth.pc = "done" /\ auth.header = << >>
    /\ auth.route = "events:read"
    /\ auth.next = 1 /\ auth.ctx = <<AnonymousUser>>
    /\ auth.resp = "authenticationRequired"

====
